---- MODULE Spec2Model ----
(***************************************************************************)
(* Model of the pure-state trajectory simulator of                         *)
(* noisy-simulator/src/state_vector_simulator.rs.                          *)
(*                                                                         *)
(* Numbers.  An f64 is a pair <<n, d>>: d > 0 is the exact rational n/d in *)
(* lowest terms, <<0,0>> is NaN, <<1,0>> is +inf and <<-1,0>> is -inf.     *)
(* Rounding of finite results is not modelled; division by zero and the    *)
(* NaN rules of the comparisons are.                                       *)
(*                                                                         *)
(* Amplitudes.  Every matrix handed to the simulator is a single-qubit     *)
(* monomial matrix (a diagonal matrix, optionally followed by the bit      *)
(* flip X) acting on qubit 0.  For such matrices the squared magnitudes of *)
(* the output amplitudes depend on the squared magnitudes of the input     *)
(* amplitudes only, so `data` holds |amplitude|^2 per entry and a matrix   *)
(* is given by the squared magnitudes of its two non-zero entries.         *)
(***************************************************************************)
EXTENDS Integers, Sequences, FiniteSets, TLC

(***************************************************************************)
(* Bounds of the model.                                                    *)
(***************************************************************************)
\* number of public calls explored after construction
MaxCalls == 2
\* qubit counts of the simulators constructed by new(n)
MaxQubits == 1
\* TOLERANCE is modelled as 1 / TolDen
TolDen == 10
\* usize is modelled with UsizeBits bits
UsizeBits == 5
\* local variables of the programs handed to invert_conjugate_exprs
MaxLocals == 2

(***************************************************************************)
(* f64 arithmetic.                                                         *)
(***************************************************************************)
Abs(x) == IF x < 0 THEN -x ELSE x

Sign(x) == IF x < 0 THEN -1 ELSE IF x > 0 THEN 1 ELSE 0

RECURSIVE Gcd(_, _)
Gcd(a, b) == IF b = 0 THEN a ELSE Gcd(b, a % b)

Reduce(n, d) == LET g == Gcd(Abs(n), d) IN <<n \div g, d \div g>>

NaN == <<0, 0>>

PosInf == <<1, 0>>

Zero == <<0, 1>>

One == <<1, 1>>

IsNaN(a) == a = NaN

IsFinite(a) == a[2] > 0

FNeg(a) == <<-a[1], a[2]>>

FAdd(a, b) ==
    IF IsFinite(a) /\ IsFinite(b) THEN Reduce(a[1] * b[2] + b[1] * a[2], a[2] * b[2])
    ELSE IF IsNaN(a) \/ IsNaN(b) THEN NaN
    ELSE IF ~IsFinite(a) /\ ~IsFinite(b) THEN (IF a = b THEN a ELSE NaN)
    ELSE IF IsFinite(a) THEN b ELSE a

FSub(a, b) == FAdd(a, FNeg(b))

FMul(a, b) ==
    IF IsFinite(a) /\ IsFinite(b) THEN Reduce(a[1] * b[1], a[2] * b[2])
    ELSE IF IsNaN(a) \/ IsNaN(b) \/ a[1] = 0 \/ b[1] = 0 THEN NaN
    ELSE <<Sign(a[1]) * Sign(b[1]), 0>>

FDiv(a, b) ==
    IF IsNaN(a) \/ IsNaN(b) THEN NaN
    ELSE IF IsFinite(b) /\ b[1] # 0
         THEN (IF IsFinite(a)
               THEN Reduce(a[1] * b[2] * Sign(b[1]), a[2] * Abs(b[1]))
               ELSE <<Sign(a[1]) * Sign(b[1]), 0>>)
    ELSE IF IsFinite(b)
         THEN (IF a[1] = 0 THEN NaN ELSE <<Sign(a[1]), 0>>)
    ELSE IF IsFinite(a) THEN Zero ELSE NaN

FLt(a, b) ==
    /\ ~IsNaN(a)
    /\ ~IsNaN(b)
    /\ IF IsFinite(a) /\ IsFinite(b) THEN a[1] * b[2] < b[1] * a[2]
       ELSE a # b /\ (a = FNeg(PosInf) \/ b = PosInf)

FLe(a, b) == ~IsNaN(a) /\ ~IsNaN(b) /\ (a = b \/ FLt(a, b))

FGt(a, b) == FLt(b, a)

FGe(a, b) == FLe(b, a)

FAbs(a) == <<Abs(a[1]), a[2]>>

\* f64::max: a NaN operand is ignored
FMax(a, b) == IF IsNaN(a) THEN b ELSE IF IsNaN(b) THEN a ELSE IF FLt(a, b) THEN b ELSE a

TOLERANCE == <<1, TolDen>>

RECURSIVE Pow2(_)
Pow2(n) == IF n = 0 THEN 1 ELSE 2 * Pow2(n - 1)

(***************************************************************************)
(* Errors and results.                                                     *)
(***************************************************************************)
Error(kind, val) == [kind |-> kind, val |-> val]

NoError == Error("none", Zero)

ProbabilityZeroEvent == Error("ProbabilityZeroEvent", Zero)

FailedToSampleKrausOperators == Error("FailedToSampleKrausOperators", Zero)

FailedToSampleInstrumentOutcome == Error("FailedToSampleInstrumentOutcome", Zero)

KernelError == Error("KernelError", Zero)

InvalidState(val) == Error("InvalidState", val)

NotNormalized(t) == Error("NotNormalized", t)

(***************************************************************************)
(* StateVector.                                                            *)
(***************************************************************************)
StateVector(dim, number_of_qubits, trace_change, data) ==
    [dim |-> dim, number_of_qubits |-> number_of_qubits,
     trace_change |-> trace_change, data |-> data]

\* placeholder carried by a slot or a result that holds no state vector
NoSV == StateVector(0, 0, Zero, <<>>)

New(number_of_qubits) ==
    LET d == Pow2(number_of_qubits)
    IN StateVector(d, number_of_qubits, One,
                   [i \in 1..d |-> IF i = 1 THEN One ELSE Zero])

\* usize arithmetic: with overflow checks (debug builds) a shift by at least the
\* width and a product that does not fit panic; without them (release builds)
\* the shift amount is masked and the product wraps
UsizeModulus == Pow2(UsizeBits)

ShlOverflows(number_of_qubits) == number_of_qubits >= UsizeBits

WrappingShl(number_of_qubits) == Pow2(number_of_qubits % UsizeBits) % UsizeModulus

MulOverflows(a, b) == a * b >= UsizeModulus

WrappingMul(a, b) == (a * b) % UsizeModulus

\* Option<StateVector>: some = FALSE is None; panic = TRUE is an overflow panic.
\* `||` evaluates dim * dim only when 1 << number_of_qubits == dim.
TryFrom(d, number_of_qubits, trace_change, data, overflow_checks) ==
    IF overflow_checks /\ ShlOverflows(number_of_qubits)
    THEN [some |-> FALSE, sv |-> NoSV, panic |-> TRUE]
    ELSE IF WrappingShl(number_of_qubits) # d
    THEN [some |-> FALSE, sv |-> NoSV, panic |-> FALSE]
    ELSE IF overflow_checks /\ MulOverflows(d, d)
    THEN [some |-> FALSE, sv |-> NoSV, panic |-> TRUE]
    ELSE IF Len(data) # WrappingMul(d, d)
    THEN [some |-> FALSE, sv |-> NoSV, panic |-> FALSE]
    ELSE [some |-> TRUE, sv |-> StateVector(d, number_of_qubits, trace_change, data),
          panic |-> FALSE]

RECURSIVE SumSeq(_)
SumSeq(s) == IF s = <<>> THEN Zero ELSE FAdd(Head(s), SumSeq(Tail(s)))

NormSquared(data) == SumSeq(data)

IsNormalized(sv) == FLe(FAbs(FSub(NormSquared(sv.data), One)), TOLERANCE)

\* Result<(), Error> of a &mut self method: the vector after the call and the error
SvResult(sv, err) == [sv |-> sv, err |-> err]

\* variant: every amplitude scaled by 1 / norm_squared instead of 1 / sqrt(norm_squared)
RenormalizeWithNormSquaredNoSqrt(sv, norm_squared) ==
    IF FLt(norm_squared, TOLERANCE)
    THEN SvResult(sv, ProbabilityZeroEvent)
    ELSE LET factor == FDiv(One, norm_squared)
         IN SvResult([sv EXCEPT !.data = [i \in 1..Len(sv.data) |->
                                              FMul(sv.data[i], FMul(factor, factor))]],
                     NoError)

RenormalizeWithNormSquared(sv, norm_squared) ==
    IF FLt(norm_squared, TOLERANCE)
    THEN SvResult(sv, ProbabilityZeroEvent)
    ELSE LET factor_squared == FDiv(One, norm_squared)
         IN SvResult([sv EXCEPT !.data = [i \in 1..Len(sv.data) |->
                                              FMul(sv.data[i], factor_squared)]],
                     NoError)

Renormalize(sv) == RenormalizeWithNormSquared(sv, NormSquared(sv.data))

(***************************************************************************)
(* Matrices, operations and instruments (containers of the crate).         *)
(* A matrix is [w |-> <<w0, w1>>, flip |-> b]: column c has one non-zero   *)
(* entry of squared magnitude w[c+1], in row c when ~flip and in row 1-c   *)
(* when flip.  An operation is its list of Kraus matrices, an instrument   *)
(* its list of operations.                                                 *)
(***************************************************************************)
Matrix(w0, w1, flip) == [w |-> <<w0, w1>>, flip |-> flip]

KrausOperators(operation) == operation

RECURSIVE EffectMatrix(_)
\* E = sum of K^dagger K: diagonal, entry c is the sum of the w[c+1]
EffectMatrix(operation) ==
    IF operation = <<>> THEN <<Zero, Zero>>
    ELSE LET rest == EffectMatrix(Tail(operation))
         IN <<FAdd(Head(operation).w[1], rest[1]), FAdd(Head(operation).w[2], rest[2])>>

NumOperations(instrument) == Len(instrument)

RECURSIVE TotalEffect(_)
TotalEffect(instrument) ==
    IF instrument = <<>> THEN <<Zero, Zero>>
    ELSE LET e == EffectMatrix(Head(instrument))
             rest == TotalEffect(Tail(instrument))
         IN <<FAdd(e[1], rest[1]), FAdd(e[2], rest[2])>>

RECURSIVE NonSelectiveKrausOperators(_)
NonSelectiveKrausOperators(instrument) ==
    IF instrument = <<>> THEN <<>>
    ELSE KrausOperators(Head(instrument)) \o NonSelectiveKrausOperators(Tail(instrument))

(***************************************************************************)
(* apply_kernel on qubit 0.  qubits_ok = FALSE stands for a qubit list the *)
(* kernel rejects (out of range or duplicated ids).                        *)
(***************************************************************************)
ApplyKernel(data, matrix, qubits_ok) ==
    IF ~qubits_ok THEN [data |-> data, err |-> KernelError]
    ELSE [data |-> [i \in 1..Len(data) |->
                      LET row == (i - 1) % 2
                          col == IF matrix.flip THEN 1 - row ELSE row
                          src == i - row + col
                      IN FMul(matrix.w[col + 1], data[src])],
          err |-> NoError]

RECURSIVE WeightedSum(_, _, _)
\* sum over the entries i..Len(data) of effect[column of i] * data[i]
WeightedSum(data, effect, i) ==
    IF i > Len(data) THEN Zero
    ELSE FAdd(FMul(effect[((i - 1) % 2) + 1], data[i]), WeightedSum(data, effect, i + 1))

\* Re <psi| E |psi> for the diagonal effect matrix E
EffectProbability(sv, effect_matrix, qubits_ok) ==
    IF ~qubits_ok THEN [p |-> Zero, err |-> KernelError]
    ELSE [p |-> WeightedSum(sv.data, effect_matrix, 1), err |-> NoError]

(***************************************************************************)
(* Rounding.  The f64 operations are modelled exactly except the running   *)
(* sums `summed_probability += p` of the two sampling loops, whose         *)
(* accumulated value may fall below the exact sum: every addition of two   *)
(* non-zero terms loses `rounding`, which is zero or Ulp for the whole     *)
(* behaviour (adding zero is exact in IEEE 754).  Ulp is far below         *)
(* TOLERANCE, as 2^-53 is below 1e-12.                                     *)
(***************************************************************************)
Ulp == <<1, 8 * TolDen>>

VARIABLE rounding

Accumulate(summed_probability, p) ==
    IF summed_probability = Zero \/ p = Zero \/ ~IsFinite(summed_probability) \/ ~IsFinite(p)
    THEN FAdd(summed_probability, p)
    ELSE FSub(FAdd(summed_probability, p), rounding)

(***************************************************************************)
(* StateVector::sample_kraus_operators.  The result carries, besides the   *)
(* vector and the error, the 0-based index of the branch applied, the path *)
(* taken ("loop": committed inside the loop, "fallback": applied after the *)
(* loop, "none": nothing applied), the number of loop iterations that      *)
(* evaluated a branch and the last-non-zero record at the return.          *)
(***************************************************************************)
KrausResult(sv, err, branch, path, seen, last) == [sv |-> sv, err |-> err, branch |-> branch, path |-> path, seen |-> seen, last |-> last]

\* the last-non-zero record of the loop
LastNonZero(last_non_zero_probability, last_non_zero_probability_index) == [p |-> last_non_zero_probability, index |-> last_non_zero_probability_index]

\* lines 149-159: after the loop
KrausAfterLoop(sv, kraus_operators, qubits_ok, random_sample, summed_probability, last_non_zero_probability, last_non_zero_probability_index) ==
    LET seen == Len(kraus_operators)
        last == LastNonZero(last_non_zero_probability, last_non_zero_probability_index)
    IN IF /\ FGt(FAdd(summed_probability, TOLERANCE), random_sample)
          /\ FGe(last_non_zero_probability, TOLERANCE)
       THEN KrausResult(sv, FailedToSampleKrausOperators, -1, "none", seen, last)
       ELSE LET k == ApplyKernel(sv.data, kraus_operators[last_non_zero_probability_index + 1],
                                 qubits_ok)
            IN IF k.err # NoError THEN KrausResult(sv, k.err, -1, "none", seen, last)
               ELSE LET r == Renormalize([sv EXCEPT !.data = k.data])
                    IN KrausResult(r.sv, r.err, last_non_zero_probability_index, "fallback",
                                   seen, last)

RECURSIVE KrausLoop(_, _, _, _, _, _, _, _, _)
\* variant: a branch is committed as soon as the sum exceeds random_sample, whatever its p
KrausStepAnyBranch(sv, kraus_operators, qubits_ok, renormalization_factor, random_sample, i, last_non_zero_probability, last_non_zero_probability_index, state_copy, norm_squared, p, summed) ==
    IF FGt(summed, random_sample) \/ FGe(p, TOLERANCE)
    THEN IF FGt(summed, random_sample)
         THEN LET r == RenormalizeWithNormSquared([sv EXCEPT !.data = state_copy.data],
                                                  norm_squared)
              IN KrausResult(r.sv, r.err, i, "loop", i + 1, LastNonZero(p, i))
         ELSE KrausLoop(sv, kraus_operators, qubits_ok, renormalization_factor,
                        random_sample, i + 1, summed, p, i)
    ELSE KrausLoop(sv, kraus_operators, qubits_ok, renormalization_factor,
                   random_sample, i + 1, summed, last_non_zero_probability,
                   last_non_zero_probability_index)

\* lines 139-147: iteration i once the branch's vector, its squared norm, its p and
\* the new sum are known
KrausStep(sv, kraus_operators, qubits_ok, renormalization_factor, random_sample, i, last_non_zero_probability, last_non_zero_probability_index, state_copy, norm_squared, p, summed) ==
    IF FGe(p, TOLERANCE)
    THEN IF FGt(summed, random_sample)
         THEN LET r == RenormalizeWithNormSquared([sv EXCEPT !.data = state_copy.data],
                                                  norm_squared)
              IN KrausResult(r.sv, r.err, i, "loop", i + 1, LastNonZero(p, i))
         ELSE KrausLoop(sv, kraus_operators, qubits_ok, renormalization_factor,
                        random_sample, i + 1, summed, p, i)
    ELSE KrausLoop(sv, kraus_operators, qubits_ok, renormalization_factor,
                   random_sample, i + 1, summed, last_non_zero_probability,
                   last_non_zero_probability_index)

\* lines 134-138: iteration i once apply_kernel has returned state_copy
KrausBranch(sv, kraus_operators, qubits_ok, renormalization_factor, random_sample, i, summed_probability, last_non_zero_probability, last_non_zero_probability_index, state_copy) ==
    IF state_copy.err # NoError
    THEN KrausResult(sv, state_copy.err, -1, "none", i + 1,
                     LastNonZero(last_non_zero_probability, last_non_zero_probability_index))
    ELSE KrausStep(sv, kraus_operators, qubits_ok, renormalization_factor, random_sample, i,
                   last_non_zero_probability, last_non_zero_probability_index, state_copy,
                   NormSquared(state_copy.data),
                   FDiv(NormSquared(state_copy.data), renormalization_factor),
                   Accumulate(summed_probability,
                              FDiv(NormSquared(state_copy.data), renormalization_factor)))

\* lines 133-148: iteration i (0-based) of the loop and the ones after it
KrausLoop(sv, kraus_operators, qubits_ok, renormalization_factor, random_sample, i, summed_probability, last_non_zero_probability, last_non_zero_probability_index) ==
    IF i >= Len(kraus_operators)
    THEN KrausAfterLoop(sv, kraus_operators, qubits_ok, random_sample, summed_probability,
                        last_non_zero_probability, last_non_zero_probability_index)
    ELSE KrausBranch(sv, kraus_operators, qubits_ok, renormalization_factor, random_sample, i,
                     summed_probability, last_non_zero_probability,
                     last_non_zero_probability_index,
                     ApplyKernel(sv.data, kraus_operators[i + 1], qubits_ok))

SampleKrausOperators(sv, kraus_operators, qubits_ok, renormalization_factor, random_sample) ==
    KrausLoop(sv, kraus_operators, qubits_ok, renormalization_factor, random_sample,
              0, Zero, Zero, 0)

(***************************************************************************)
(* StateVectorSimulator.  The slot `state` is Result<StateVector, Error>:  *)
(* Healthy iff err = NoError.  A call's outcome is the slot after it, the  *)
(* error returned (NoError for Ok), the value returned and, for the        *)
(* evolution calls, what was consumed and applied.                         *)
(***************************************************************************)
Healthy(sv) == [sv |-> sv, err |-> NoError]

Poisoned(err) == [sv |-> NoSV, err |-> err]

IsHealthy(slot) == slot.err = NoError

Outcome(slot, err, val, consumed, outcome, branch, path, kraus, outer) ==
    [slot |-> slot, err |-> err, val |-> val, consumed |-> consumed,
     outcome |-> outcome, branch |-> branch, path |-> path, kraus |-> kraus, outer |-> outer]

\* what a call to sample_kraus_operators went through: its error, the branch it
\* applied and on which path, the iterations that evaluated a branch and the
\* last-non-zero record at its return
Kraus(r) == [ran |-> TRUE, err |-> r.err, branch |-> r.branch, path |-> r.path, seen |-> r.seen, last |-> r.last]

NoKraus == [ran |-> FALSE, err |-> NoError, branch |-> -1, path |-> "none", seen |-> 0, last |-> LastNonZero(Zero, 0)]

\* the locals of sample_instrument_with_distribution after its outer loop
Outer(l, rescaled_random_sample) == [ran |-> TRUE, summed |-> l.summed, last_s |-> l.last_s, last_o |-> l.last_o, rescaled |-> rescaled_random_sample]

NoOuter == [ran |-> FALSE, summed |-> Zero, last_s |-> Zero, last_o |-> 0, rescaled |-> Zero]

\* a call that returns err (or val) and applies nothing
Plain(slot, err, val) == Outcome(slot, err, val, NaN, -1, -1, "none", NoKraus, NoOuter)

\* handle_error!(self, err): store the error in the slot and return it
HandleError(err, consumed, outcome, kraus, outer) ==
    Outcome(Poisoned(err), err, Zero, consumed, outcome, -1, "none", kraus, outer)

\* variant: an error of sample_kraus_operators is returned without handle_error!
FinishNoPoison(sv, consumed, outcome, val, outer, r) ==
    IF r.err # NoError
    THEN Outcome(Healthy(sv), r.err, Zero, consumed, outcome, -1, "none", Kraus(r), outer)
    ELSE Outcome(Healthy(r.sv), NoError, val, consumed, outcome, r.branch, r.path, Kraus(r),
                 outer)

\* lines 196-201, 218-223, 281-291: the end of an evolution call, r being what
\* sample_kraus_operators returned on the state sv
Finish(sv, consumed, outcome, val, outer, r) ==
    IF r.err # NoError THEN HandleError(r.err, consumed, outcome, Kraus(r), outer)
    ELSE Outcome(Healthy(r.sv), NoError, val, consumed, outcome, r.branch, r.path, Kraus(r),
                 outer)

\* variant: trace_change is not multiplied by the effect probability
ApplyKrausNoTrace(slot, kraus_operators, qubits_ok, random_sample, e) ==
    IF e.err # NoError THEN Plain(slot, e.err, Zero)
    ELSE Finish(slot.sv, e.p, -1, Zero, NoOuter,
                SampleKrausOperators(slot.sv, kraus_operators, qubits_ok, e.p, random_sample))

\* lines 188-201 and 210-223: apply_operation and apply_instrument once
\* effect_probability has returned e
ApplyKraus(slot, kraus_operators, qubits_ok, random_sample, e) ==
    IF e.err # NoError THEN Plain(slot, e.err, Zero)
    ELSE Finish([slot.sv EXCEPT !.trace_change = FMul(@, e.p)], e.p, -1, Zero, NoOuter,
                SampleKrausOperators([slot.sv EXCEPT !.trace_change = FMul(@, e.p)],
                                     kraus_operators, qubits_ok, e.p, random_sample))

ApplyOperation(slot, operation, qubits_ok, random_sample) ==
    IF ~IsHealthy(slot) THEN Plain(slot, slot.err, Zero)
    ELSE ApplyKraus(slot, KrausOperators(operation), qubits_ok, random_sample,
                    EffectProbability(slot.sv, EffectMatrix(operation), qubits_ok))

ApplyInstrument(slot, instrument, qubits_ok, random_sample) ==
    IF ~IsHealthy(slot) THEN Plain(slot, slot.err, Zero)
    ELSE ApplyKraus(slot, NonSelectiveKrausOperators(instrument), qubits_ok, random_sample,
                    EffectProbability(slot.sv, TotalEffect(instrument), qubits_ok))

\* what the outer loop hands on: an error, the sum and the last-non-zero record
LoopResult(err, summed_probability, last_non_zero_norm_squared, last_non_zero_outcome) == [err |-> err, summed |-> summed_probability, last_s |-> last_non_zero_norm_squared, last_o |-> last_non_zero_outcome]

RECURSIVE OutcomeLoop(_, _, _, _, _, _, _, _, _)
\* variant: the loop stops as soon as summed_probability >= random_sample
OutcomeStepGe(sv, instrument, qubits_ok, renormalization_factor, random_sample, outcome, last_non_zero_norm_squared, last_non_zero_outcome, norm_squared, p, summed) ==
    IF FGe(summed, random_sample)
    THEN LoopResult(NoError, summed,
                    IF FGe(p, TOLERANCE) THEN norm_squared ELSE last_non_zero_norm_squared,
                    IF FGe(p, TOLERANCE) THEN outcome ELSE last_non_zero_outcome)
    ELSE OutcomeLoop(sv, instrument, qubits_ok, renormalization_factor, random_sample,
                     outcome + 1, summed,
                     IF FGe(p, TOLERANCE) THEN norm_squared ELSE last_non_zero_norm_squared,
                     IF FGe(p, TOLERANCE) THEN outcome ELSE last_non_zero_outcome)

\* lines 258-266: iteration `outcome` once its effect probability, its p and the new
\* sum are known
OutcomeStep(sv, instrument, qubits_ok, renormalization_factor, random_sample, outcome, last_non_zero_norm_squared, last_non_zero_outcome, norm_squared, p, summed) ==
    IF FGt(summed, random_sample)
    THEN LoopResult(NoError, summed,
                    IF FGe(p, TOLERANCE) THEN norm_squared ELSE last_non_zero_norm_squared,
                    IF FGe(p, TOLERANCE) THEN outcome ELSE last_non_zero_outcome)
    ELSE OutcomeLoop(sv, instrument, qubits_ok, renormalization_factor, random_sample,
                     outcome + 1, summed,
                     IF FGe(p, TOLERANCE) THEN norm_squared ELSE last_non_zero_norm_squared,
                     IF FGe(p, TOLERANCE) THEN outcome ELSE last_non_zero_outcome)

\* lines 254-258: iteration `outcome` once effect_probability has returned e
OutcomeEffect(sv, instrument, qubits_ok, renormalization_factor, random_sample, outcome, summed_probability, last_non_zero_norm_squared, last_non_zero_outcome, e) ==
    IF e.err # NoError
    THEN LoopResult(e.err, summed_probability, last_non_zero_norm_squared,
                    last_non_zero_outcome)
    ELSE OutcomeStep(sv, instrument, qubits_ok, renormalization_factor, random_sample, outcome,
                     last_non_zero_norm_squared, last_non_zero_outcome, e.p,
                     FDiv(e.p, renormalization_factor),
                     Accumulate(summed_probability, FDiv(e.p, renormalization_factor)))

\* lines 253-267: iteration `outcome` of the outer loop and the ones after it
OutcomeLoop(sv, instrument, qubits_ok, renormalization_factor, random_sample, outcome, summed_probability, last_non_zero_norm_squared, last_non_zero_outcome) ==
    IF outcome >= NumOperations(instrument)
    THEN LoopResult(NoError, summed_probability, last_non_zero_norm_squared,
                    last_non_zero_outcome)
    ELSE OutcomeEffect(sv, instrument, qubits_ok, renormalization_factor, random_sample,
                       outcome, summed_probability, last_non_zero_norm_squared,
                       last_non_zero_outcome,
                       EffectProbability(sv, EffectMatrix(instrument[outcome + 1]), qubits_ok))

\* lines 276-279
RescaledRandomSample(summed_probability, random_sample, last_non_zero_norm_squared, renormalization_factor) ==
    FMax(FMul(FDiv(FSub(summed_probability, random_sample), last_non_zero_norm_squared),
              renormalization_factor),
         Zero)

\* lines 275-292: the outcome l.last_o is sampled with the rescaled sample
SampleOutcome(slot, instrument, qubits_ok, l, rescaled_random_sample) ==
    Finish([slot.sv EXCEPT !.trace_change = FMul(@, l.last_s)], l.last_s, l.last_o,
           <<l.last_o, 1>>, Outer(l, rescaled_random_sample),
           SampleKrausOperators([slot.sv EXCEPT !.trace_change = FMul(@, l.last_s)],
                                KrausOperators(instrument[l.last_o + 1]), qubits_ok, l.last_s,
                                rescaled_random_sample))

\* variant: the outcome sampling fails as soon as summed_probability <= random_sample
SampleAfterLoopNoSlack(slot, instrument, qubits_ok, renormalization_factor, random_sample, l) ==
    IF l.err # NoError THEN Plain(slot, l.err, Zero)
    ELSE IF \/ FLe(l.summed, random_sample)
            \/ FLt(l.last_s, TOLERANCE)
    THEN HandleError(FailedToSampleInstrumentOutcome, NaN, -1, NoKraus, Outer(l, Zero))
    ELSE SampleOutcome(slot, instrument, qubits_ok, l,
                       RescaledRandomSample(l.summed, random_sample, l.last_s,
                                            renormalization_factor))

\* variant: the outcome sampling does not fail when no outcome was recorded
SampleAfterLoopAnyRecord(slot, instrument, qubits_ok, renormalization_factor, random_sample, l) ==
    IF l.err # NoError THEN Plain(slot, l.err, Zero)
    ELSE IF FLe(FAdd(l.summed, TOLERANCE), random_sample)
    THEN HandleError(FailedToSampleInstrumentOutcome, NaN, -1, NoKraus, Outer(l, Zero))
    ELSE SampleOutcome(slot, instrument, qubits_ok, l,
                       RescaledRandomSample(l.summed, random_sample, l.last_s,
                                            renormalization_factor))

\* lines 254-257 (the `?` of the loop) and 269-279: l is what the outer loop handed on
SampleAfterLoop(slot, instrument, qubits_ok, renormalization_factor, random_sample, l) ==
    IF l.err # NoError THEN Plain(slot, l.err, Zero)
    ELSE IF \/ FLe(FAdd(l.summed, TOLERANCE), random_sample)
            \/ FLt(l.last_s, TOLERANCE)
    THEN HandleError(FailedToSampleInstrumentOutcome, NaN, -1, NoKraus, Outer(l, Zero))
    ELSE SampleOutcome(slot, instrument, qubits_ok, l,
                       RescaledRandomSample(l.summed, random_sample, l.last_s,
                                            renormalization_factor))

\* lines 246-267: e is what effect_probability returned for the total effect
SampleWithTotalEffect(slot, instrument, qubits_ok, random_sample, e) ==
    IF e.err # NoError THEN Plain(slot, e.err, Zero)
    ELSE SampleAfterLoop(slot, instrument, qubits_ok, e.p, random_sample,
                         OutcomeLoop(slot.sv, instrument, qubits_ok, e.p, random_sample,
                                     0, Zero, Zero, 0))

SampleInstrumentWithDistribution(slot, instrument, qubits_ok, random_sample) ==
    IF ~IsHealthy(slot) THEN Plain(slot, slot.err, Zero)
    ELSE SampleWithTotalEffect(slot, instrument, qubits_ok, random_sample,
                               EffectProbability(slot.sv, TotalEffect(instrument), qubits_ok))

\* state(): Ok(&StateVector) or Err(&Error); the slot is the reference returned
State(slot) == Plain(slot, slot.err, Zero)

\* variant: the dimension is checked against the held state instead of self.dim
SetStateHeldDim(slot, self_dim, new_state) ==
    IF slot.sv.dim # new_state.dim
    THEN Plain(slot, InvalidState(<<new_state.dim, 1>>), Zero)
    ELSE IF ~IsNormalized(new_state)
    THEN Plain(slot, InvalidState(NormSquared(new_state.data)), Zero)
    ELSE Plain(Healthy(new_state), NoError, Zero)

SetState(slot, self_dim, new_state) ==
    IF self_dim # new_state.dim
    THEN Plain(slot, InvalidState(<<new_state.dim, 1>>), Zero)
    ELSE IF ~IsNormalized(new_state)
    THEN Plain(slot, InvalidState(NormSquared(new_state.data)), Zero)
    ELSE Plain(Healthy(new_state), NoError, Zero)

\* variant: the held trace_change is returned without looking at the slot's error
TraceChangeUnchecked(slot) == Plain(slot, NoError, slot.sv.trace_change)

TraceChange(slot) ==
    IF ~IsHealthy(slot) THEN Plain(slot, slot.err, Zero)
    ELSE Plain(slot, NoError, slot.sv.trace_change)

SetTrace(slot, trace) ==
    IF FLt(trace, TOLERANCE) \/ FGt(FSub(trace, One), TOLERANCE)
    THEN Plain(slot, NotNormalized(trace), Zero)
    ELSE IF ~IsHealthy(slot) THEN Plain(slot, slot.err, Zero)
    ELSE Plain(Healthy([slot.sv EXCEPT !.trace_change = trace]), NoError, Zero)

(***************************************************************************)
(* Inputs.                                                                 *)
(***************************************************************************)
Half == <<1, 2>>

\* TOLERANCE / 2: positive and below TOLERANCE
Faint == <<1, 2 * TolDen>>

Operations ==
    << <<Matrix(Half, One, FALSE)>>,                                 \* 1: attenuates |0>
       <<Matrix(One, One, TRUE)>>,                                   \* 2: X
       <<Matrix(One, Zero, FALSE)>>,                                 \* 3: projector on |0>
       <<Matrix(Zero, One, FALSE)>>,                                 \* 4: projector on |1>
       <<Matrix(Half, Half, FALSE), Matrix(Half, Half, TRUE)>>,      \* 5: bit-flip channel
       <<Matrix(Faint, Faint, FALSE)>>,                              \* 6: effect below TOLERANCE
       <<Matrix(FMul(Faint, FSub(One, Faint)), FMul(Faint, FSub(One, Faint)), FALSE),
         Matrix(FMul(Faint, Faint), FMul(Faint, Faint), FALSE)>>,    \* 7: the same, two branches
       <<Matrix(One, FSub(One, Faint), FALSE), Matrix(Zero, Faint, TRUE)>> >> \* 8: weak damping

Instruments ==
    << <<Operations[3], Operations[4]>>,                             \* 1: Z measurement
       << <<Matrix(Half, Faint, FALSE)>>,                            \* 2: three outcomes, one
          <<Matrix(Faint, FSub(One, Faint), FALSE)>>,                \*    of them below
          <<Matrix(FSub(Half, Faint), Zero, FALSE)>> >>,             \*    TOLERANCE
       << <<Matrix(Half, Zero, FALSE), Matrix(Half, Zero, TRUE)>>,   \* 3: Z measurement whose
          <<Matrix(Zero, One, FALSE)>> >>,                           \*    outcome 0 has 2 branches
       << <<Matrix(Faint, Zero, FALSE)>>,                            \* 4: total effect TOLERANCE
          <<Matrix(Faint, One, FALSE)>> >> >>                        \*    on |0>

\* uniform samples in [0, 1)
Samples == {Zero, <<3, 10>>, Half, <<7, 10>>, FSub(One, FMul(Half, Faint)),
            FSub(One, FMul(Half, Ulp))}

\* the samples explored for apply_operation: below and above the first branch
\* of the two-branch operations, and within TOLERANCE of 1
OperationSamples == {<<3, 10>>, <<7, 10>>, FSub(One, FMul(Half, Faint))}

\* the values of rand::random() explored for the calls on instruments that draw
\* their own sample
RandomSamples == {<<3, 10>>, FSub(One, FMul(Half, Faint))}

Traces == {Zero, Faint, TOLERANCE, Half, FAdd(One, TOLERANCE),
           FAdd(One, FAdd(TOLERANCE, TOLERANCE)), FNeg(TOLERANCE), NaN}

\* the first entries of the amplitude vectors handed to try_from; the rest is zero
Patterns == {<<One, Zero>>, <<Half, Half>>, <<FAdd(One, TOLERANCE), Zero>>,
             <<FAdd(One, FAdd(TOLERANCE, TOLERANCE)), Zero>>}

Padded(pattern, len) == [i \in 1..len |-> IF i <= Len(pattern) THEN pattern[i] ELSE Zero]

\* Some(sv) results of try_from for n qubits
TryFromStates(n) ==
    {r.sv : r \in {t \in {TryFrom(Pow2(n), n, tc, Padded(pat, len), TRUE) :
                              tc \in {One, Zero}, pat \in Patterns,
                              len \in {Pow2(n), Pow2(n) * Pow2(n)}} : t.some}}

\* the states a caller can hand to set_state
NewStates ==
    {New(n) : n \in 1..(MaxQubits + 1)} \cup UNION {TryFromStates(n) : n \in 1..MaxQubits}

(***************************************************************************)
(* The state machine: one action per public method.                        *)
(***************************************************************************)
\* the arguments <<op, qubits_ok, u>> of an evolution call over `count` operations
\* or instruments: every op and sample with a qubit list the kernel accepts, and
\* one call with a qubit list it rejects (the kernel rejects it whatever op and u)
EvolutionArgs(count, samples) ==
    {<<op, TRUE, u>> : op \in 1..count, u \in samples} \cup {<<1, FALSE, Zero>>}

VARIABLES state, dim, call, hist, ncalls

\* the last call of StateVector::try_from: its arguments, the build and the result
VARIABLE tf

\* the last run of invert_conjugate_exprs: the package, the package after the pass,
\* the errors returned and the assigner's next id
VARIABLE pass

vars == <<state, dim, call, hist, ncalls, rounding, tf, pass>>

Call(name, op, qubits_ok, u, new_state, trace, pre, ret) ==
    [name |-> name, op |-> op, qubits_ok |-> qubits_ok, u |-> u, new_state |-> new_state,
     trace |-> trace, pre |-> pre, ret |-> ret]

\* hist.prod: product of the effect probabilities consumed since new(n);
\* hist.pure: no set_state or set_trace succeeded since new(n)
Evolved(h, ret) ==
    IF ret.err = NoError THEN [h EXCEPT !.prod = FMul(@, ret.consumed), !.k = @ + 1] ELSE h

Replaced(h, ret) == IF ret.err = NoError THEN [h EXCEPT !.pure = FALSE] ELSE h

TryFromCall(d, number_of_qubits, trace_change, data, overflow_checks) == [called |-> TRUE, dim |-> d, number_of_qubits |-> number_of_qubits, trace_change |-> trace_change, data |-> data, overflow_checks |-> overflow_checks, ret |-> TryFrom(d, number_of_qubits, trace_change, data, overflow_checks)]

NoTryFrom == [called |-> FALSE, dim |-> 0, number_of_qubits |-> 0, trace_change |-> Zero, data |-> <<>>, overflow_checks |-> FALSE, ret |-> [some |-> FALSE, sv |-> NoSV, panic |-> FALSE]]

NoPass == [done |-> FALSE, input |-> <<>>, output |-> <<>>, errors |-> <<>>, next |-> 0]

Init ==
    \E n \in 1..MaxQubits :
        /\ state = Healthy(New(n))
        /\ dim = New(n).dim
        /\ call = Call("new", 0, TRUE, Zero, NoSV, Zero, Healthy(New(n)),
                       Plain(Healthy(New(n)), NoError, Zero))
        /\ hist = [pure |-> TRUE, prod |-> One, k |-> 0]
        /\ ncalls = 0
        /\ rounding \in {Zero, Ulp}
        /\ tf = NoTryFrom
        /\ pass = NoPass

Step(c, h) ==
    /\ ncalls < MaxCalls
    /\ ncalls' = ncalls + 1
    /\ call' = c
    /\ state' = c.ret.slot
    /\ hist' = h
    /\ UNCHANGED <<dim, rounding, tf, pass>>

apply_operation ==
    \E a \in EvolutionArgs(Len(Operations), OperationSamples) :
        LET op == a[1]
            qubits_ok == a[2]
            u == a[3]
            ret == ApplyOperation(state, Operations[op], qubits_ok, u)
        IN Step(Call("apply_operation", op, qubits_ok, u, NoSV, Zero, state, ret),
                Evolved(hist, ret))

apply_instrument ==
    \E a \in EvolutionArgs(Len(Instruments), RandomSamples) :
        LET op == a[1]
            qubits_ok == a[2]
            u == a[3]
            ret == ApplyInstrument(state, Instruments[op], qubits_ok, u)
        IN Step(Call("apply_instrument", op, qubits_ok, u, NoSV, Zero, state, ret),
                Evolved(hist, ret))

sample_instrument_with_distribution ==
    \E a \in EvolutionArgs(Len(Instruments), Samples) :
        LET op == a[1]
            qubits_ok == a[2]
            u == a[3]
            ret == SampleInstrumentWithDistribution(state, Instruments[op], qubits_ok, u)
        IN Step(Call("sample_instrument_with_distribution", op, qubits_ok, u, NoSV, Zero,
                     state, ret),
                Evolved(hist, ret))

\* sample_instrument: sample_instrument_with_distribution with rand::random()
sample_instrument ==
    \E a \in EvolutionArgs(Len(Instruments), RandomSamples) :
        LET op == a[1]
            qubits_ok == a[2]
            u == a[3]
            ret == SampleInstrumentWithDistribution(state, Instruments[op], qubits_ok, u)
        IN Step(Call("sample_instrument", op, qubits_ok, u, NoSV, Zero, state, ret),
                Evolved(hist, ret))

state_ ==
    Step(Call("state", 0, TRUE, Zero, NoSV, Zero, state, State(state)), hist)

set_state ==
    \E new_state \in NewStates :
        LET ret == SetState(state, dim, new_state)
        IN Step(Call("set_state", 0, TRUE, Zero, new_state, Zero, state, ret),
                Replaced(hist, ret))

trace_change ==
    Step(Call("trace_change", 0, TRUE, Zero, NoSV, Zero, state, TraceChange(state)), hist)

set_trace ==
    \E trace \in Traces :
        LET ret == SetTrace(state, trace)
        IN Step(Call("set_trace", 0, TRUE, Zero, NoSV, trace, state, ret),
                Replaced(hist, ret))

Next ==
    \/ apply_operation
    \/ apply_instrument
    \/ sample_instrument_with_distribution
    \/ sample_instrument
    \/ state_
    \/ set_state
    \/ trace_change
    \/ set_trace

Spec == Init /\ [][Next]_vars

(***************************************************************************)
(* Properties.  `call` is the last public call: its arguments, the slot    *)
(* before it (call.pre) and what it returned (call.ret); `state` is the    *)
(* slot after it.                                                          *)
(***************************************************************************)

\* C1 (as stated): once the slot holds an error e, every later call of
\* apply_operation, apply_instrument, sample_instrument,
\* sample_instrument_with_distribution, state, trace_change and set_trace (with
\* any argument) returns e and leaves the slot holding e.
C1_StickyAnyArgument ==
    (/\ call.name \in {"apply_operation", "apply_instrument", "sample_instrument",
                       "sample_instrument_with_distribution", "state", "trace_change",
                       "set_trace"}
     /\ ~IsHealthy(call.pre))
    => (call.ret.err = call.pre.err /\ state = call.pre)

\* C1 (amended): once the slot holds an error e, every later call of
\* apply_operation, apply_instrument, sample_instrument,
\* sample_instrument_with_distribution, state and trace_change, and of set_trace(t)
\* with TOLERANCE <= t <= 1 + TOLERANCE, returns e; set_trace(t) with t < TOLERANCE
\* or t > 1 + TOLERANCE returns NotNormalized(t); each of these calls leaves the
\* slot holding e.
C1_Sticky ==
    (/\ call.name \in {"apply_operation", "apply_instrument", "sample_instrument",
                       "sample_instrument_with_distribution", "state", "trace_change",
                       "set_trace"}
     /\ ~IsHealthy(call.pre))
    => /\ state = call.pre
       /\ (\/ call.name # "set_trace"
           \/ (FLe(TOLERANCE, call.trace) /\ FLe(call.trace, FAdd(One, TOLERANCE))))
          => call.ret.err = call.pre.err
       /\ (/\ call.name = "set_trace"
           /\ (FLt(call.trace, TOLERANCE) \/ FGt(call.trace, FAdd(One, TOLERANCE))))
          => call.ret.err = NotNormalized(call.trace)

\* a poisoned simulator answered an in-range set_trace with the stored error
C1_Witness ==
    /\ ncalls >= 2
    /\ ~IsHealthy(call.pre)
    /\ call.name = "set_trace"
    /\ call.trace = Half
    /\ call.ret.err = call.pre.err
    /\ call.ret.err.kind = "ProbabilityZeroEvent"

\* C2: every failure of apply_operation, apply_instrument or
\* sample_instrument_with_distribution on a Healthy simulator (a kernel error while
\* computing an effect probability included) leaves the simulator Poisoned with the
\* error returned, so that state() then returns that error.
C2_FailurePoisons ==
    (/\ call.name \in {"apply_operation", "apply_instrument",
                       "sample_instrument_with_distribution"}
     /\ IsHealthy(call.pre)
     /\ call.ret.err # NoError)
    => (state = Poisoned(call.ret.err) /\ State(state).err = call.ret.err)

\* C3: set_state(new) succeeds iff new.dim is the dimension fixed at construction
\* and | ||new.data||^2 - 1 | <= TOLERANCE, whatever the slot holds; on success the
\* slot holds exactly new; on rejection it returns InvalidState and the slot is
\* unchanged; no other call takes a Poisoned simulator to Healthy.
C3_SetState ==
    /\ dim \in {Pow2(n) : n \in 1..MaxQubits}
    /\ (~IsHealthy(call.pre) /\ IsHealthy(state)) => call.name = "set_state"
    /\ call.name = "set_state" =>
         LET norm == SumSeq(call.new_state.data)
             valid == /\ call.new_state.dim = dim
                      /\ FLe(FSub(One, TOLERANCE), norm)
                      /\ FLe(norm, FAdd(One, TOLERANCE))
         IN /\ (call.ret.err = NoError) <=> valid
            /\ valid => state = Healthy(call.new_state)
            /\ ~valid => (call.ret.err.kind = "InvalidState" /\ state = call.pre)

\* set_state took a Poisoned simulator to Healthy with a state built by try_from
C3_Witness ==
    /\ call.name = "set_state"
    /\ ~IsHealthy(call.pre)
    /\ IsHealthy(state)
    /\ state.sv = call.new_state
    /\ Len(state.sv.data) = dim * dim

\* C4: after every successful apply_operation, apply_instrument,
\* sample_instrument_with_distribution, set_state and set_trace the held state has
\* | ||data||^2 - 1 | <= TOLERANCE.
C4_Normalized ==
    (/\ call.name \in {"apply_operation", "apply_instrument",
                       "sample_instrument_with_distribution", "set_state", "set_trace"}
     /\ call.ret.err = NoError)
    => /\ IsHealthy(state)
       /\ FLe(FSub(One, TOLERANCE), SumSeq(state.sv.data))
       /\ FLe(SumSeq(state.sv.data), FAdd(One, TOLERANCE))

\* a Kraus branch of squared norm 1/2 was committed inside the loop and renormalized
C4_Witness ==
    /\ call.name = "apply_operation"
    /\ call.ret.err = NoError
    /\ call.ret.path = "loop"
    /\ call.ret.branch = 1
    /\ SumSeq(ApplyKernel(call.pre.sv.data, Operations[call.op][2], TRUE).data) = Half

\* C5: from new(n), as long as no set_state or set_trace intervened, trace_change is
\* the product of the effect probabilities consumed by the successful evolution
\* calls, each taken on the state before its call: of the operation's effect matrix
\* (apply_operation), of the total effect (apply_instrument), of the returned
\* outcome's effect matrix (sample_instrument_with_distribution).
C5_TraceProduct ==
    /\ (hist.pure /\ IsHealthy(state)) => state.sv.trace_change = hist.prod
    /\ (call.ret.err = NoError /\ call.name = "apply_operation") =>
         call.ret.consumed = WeightedSum(call.pre.sv.data,
                                         EffectMatrix(Operations[call.op]), 1)
    /\ (call.ret.err = NoError /\ call.name = "apply_instrument") =>
         call.ret.consumed = WeightedSum(call.pre.sv.data,
                                         TotalEffect(Instruments[call.op]), 1)
    /\ (call.ret.err = NoError /\ call.name = "sample_instrument_with_distribution") =>
         call.ret.consumed = WeightedSum(call.pre.sv.data,
                                  EffectMatrix(Instruments[call.op][call.ret.val[1] + 1]), 1)

\* two evolution calls in a row succeeded and the last, a sampled measurement,
\* consumed an outcome probability below the total effect
C5_Witness ==
    /\ hist.pure
    /\ hist.k = 2
    /\ IsHealthy(state)
    /\ call.name = "sample_instrument_with_distribution"
    /\ FLt(state.sv.trace_change, Half)
    /\ FLt(call.ret.consumed,
           WeightedSum(call.pre.sv.data, TotalEffect(Instruments[call.op]), 1))

\* C6: after every successful public call the held trace_change is > 0.
C6_TracePositive ==
    (call.ret.err = NoError /\ IsHealthy(state)) => FGt(state.sv.trace_change, Zero)

\* C7: set_trace(t) with t outside [TOLERANCE, 1 + TOLERANCE] returns
\* NotNormalized(t) and changes nothing; with t inside it, a Healthy simulator keeps
\* dim, number_of_qubits and data and gets trace_change = t; set_trace never turns
\* Healthy into Poisoned or Poisoned into Healthy.
C7_SetTrace ==
    call.name = "set_trace" =>
        LET in_range == FLe(TOLERANCE, call.trace) /\ FLe(call.trace, FAdd(One, TOLERANCE))
        IN /\ ~in_range => (call.ret.err = NotNormalized(call.trace) /\ state = call.pre)
           /\ (in_range /\ IsHealthy(call.pre)) =>
                /\ call.ret.err = NoError
                /\ state = Healthy([call.pre.sv EXCEPT !.trace_change = call.trace])
           /\ IsHealthy(state) <=> IsHealthy(call.pre)

\* C8: apply_operation on a Healthy simulator with an operation whose effect
\* probability on the current state is below TOLERANCE returns ProbabilityZeroEvent
\* and poisons the simulator with it, for every sample u and every Kraus list;
\* trace_change() then returns that error and set_state(new(n)) restores Healthy.
C8_ZeroEffect ==
    /\ (/\ call.name = "apply_operation"
        /\ IsHealthy(call.pre)
        /\ call.qubits_ok
        /\ FLt(WeightedSum(call.pre.sv.data, EffectMatrix(Operations[call.op]), 1),
               TOLERANCE))
       => /\ call.ret.err = ProbabilityZeroEvent
          /\ state = Poisoned(ProbabilityZeroEvent)
    /\ state = Poisoned(ProbabilityZeroEvent) =>
          /\ TraceChange(state).err = ProbabilityZeroEvent
          /\ \A n \in 1..MaxQubits :
                 Pow2(n) = dim => SetState(state, dim, New(n)).slot = Healthy(New(n))

\* probability p_o = s_o / R of outcome o (0-based) of an instrument on a state
OutcomeProbability(sv, instrument, o) ==
    FDiv(WeightedSum(sv.data, EffectMatrix(instrument[o + 1]), 1),
         WeightedSum(sv.data, TotalEffect(instrument), 1))

RECURSIVE Cumulative(_, _, _)
\* p_0 + ... + p_o
Cumulative(sv, instrument, o) ==
    IF o < 0 THEN Zero
    ELSE FAdd(Cumulative(sv, instrument, o - 1), OutcomeProbability(sv, instrument, o))

\* the smallest element of a non-empty set of naturals
Least(S) == CHOOSE x \in S : \A y \in S : x <= y

\* the largest element of a non-empty set of naturals
Greatest(S) == CHOOSE x \in S : \A y \in S : y <= x

\* C9: sample_instrument_with_distribution with u = 0 on a Healthy simulator succeeds
\* and returns the lowest outcome whose probability is >= TOLERANCE, whenever the
\* instrument has such an outcome.
C9_FirstOutcomeAtZero ==
    LET inst == Instruments[call.op]
        nz == {o \in 0..(Len(inst) - 1) :
                  FGe(OutcomeProbability(call.pre.sv, inst, o), TOLERANCE)}
    IN (/\ call.name = "sample_instrument_with_distribution"
        /\ IsHealthy(call.pre)
        /\ call.qubits_ok
        /\ call.u = Zero
        /\ nz # {})
       => (call.ret.err = NoError /\ call.ret.val = <<Least(nz), 1>>)

\* C10 (as stated): whenever some outcome's cumulative probability exceeds u, the
\* outcome returned is the first outcome whose cumulative probability exceeds u, and
\* the Kraus branch applied is one of that outcome's.
C10_FirstCrossing ==
    LET inst == Instruments[call.op]
        crossing == {o \in 0..(Len(inst) - 1) :
                        FGt(Cumulative(call.pre.sv, inst, o), call.u)}
    IN (/\ call.name = "sample_instrument_with_distribution"
        /\ call.ret.err = NoError
        /\ IsHealthy(call.pre)
        /\ crossing # {})
       => /\ call.ret.val = <<Least(crossing), 1>>
          /\ call.ret.branch \in 0..(Len(inst[Least(crossing) + 1]) - 1)
          /\ state.sv.data =
                Renormalize([call.pre.sv EXCEPT !.data =
                    ApplyKernel(call.pre.sv.data,
                                inst[Least(crossing) + 1][call.ret.branch + 1],
                                TRUE).data]).sv.data

\* C10 (amended): whenever some outcome's cumulative probability exceeds u and the
\* call returns Ok(o), o is the last outcome with p >= TOLERANCE among the outcomes
\* up to and including the first outcome c whose cumulative probability exceeds u
\* (so o = c when p_c >= TOLERANCE), and the Kraus branch applied is one of o's.
C10_LastNonZeroUpToCrossing ==
    LET inst == Instruments[call.op]
        crossing == {o \in 0..(Len(inst) - 1) :
                        FGt(Cumulative(call.pre.sv, inst, o), call.u)}
        nz == {o \in 0..Least(crossing) :
                  FGe(OutcomeProbability(call.pre.sv, inst, o), TOLERANCE)}
    IN (/\ call.name = "sample_instrument_with_distribution"
        /\ call.ret.err = NoError
        /\ IsHealthy(call.pre)
        /\ crossing # {})
       => /\ nz # {}
          /\ call.ret.val = <<Greatest(nz), 1>>
          /\ call.ret.branch \in 0..(Len(inst[Greatest(nz) + 1]) - 1)
          /\ state.sv.data =
                Renormalize([call.pre.sv EXCEPT !.data =
                    ApplyKernel(call.pre.sv.data,
                                inst[Greatest(nz) + 1][call.ret.branch + 1],
                                TRUE).data]).sv.data

\* the equal superposition measured in Z with u = 0.7 gave outcome 1 and state |1>
C10_Witness ==
    /\ call.name = "sample_instrument_with_distribution"
    /\ call.op = 1
    /\ call.u = <<7, 10>>
    /\ IsHealthy(call.pre)
    /\ call.ret.err = NoError
    /\ SubSeq(call.pre.sv.data, 1, 2) = <<Half, Half>>
    /\ call.ret.val = <<1, 1>>
    /\ SubSeq(state.sv.data, 1, 2) = <<Zero, One>>

(***************************************************************************)
(* The outer loop of sample_instrument_with_distribution at u close to 1.  *)
(***************************************************************************)
\* the outcomes (0-based) of an instrument whose probability on sv is at least TOLERANCE
NonZeroOutcomes(sv, instrument) ==
    {o \in 0..(NumOperations(instrument) - 1) :
        FGe(OutcomeProbability(sv, instrument, o), TOLERANCE)}

\* effect probability s_o of outcome o (0-based) of an instrument on a state
OutcomeNormSquared(sv, instrument, o) ==
    WeightedSum(sv.data, EffectMatrix(instrument[o + 1]), 1)

\* the last call sampled an instrument with u < 1, its outer loop visited every
\* outcome without summed_probability exceeding u, u < summed + TOLERANCE, and
\* some outcome has p >= TOLERANCE
OuterLoopExhausted ==
    /\ call.name = "sample_instrument_with_distribution"
    /\ IsHealthy(call.pre)
    /\ call.ret.outer.ran
    /\ FLt(call.u, One)
    /\ FLe(call.ret.outer.summed, call.u)
    /\ FLt(call.u, FAdd(call.ret.outer.summed, TOLERANCE))
    /\ NonZeroOutcomes(call.pre.sv, Instruments[call.op]) # {}

\* the call returned Ok with the last outcome whose p >= TOLERANCE and left the
\* simulator Healthy with a normalized state
ReturnedLastNonZero ==
    /\ call.ret.err = NoError
    /\ call.ret.val = <<Greatest(NonZeroOutcomes(call.pre.sv, Instruments[call.op])), 1>>
    /\ IsHealthy(state)
    /\ IsNormalized(state.sv)

KrausLoopExhausted ==
    /\ call.ret.kraus.ran
    /\ call.ret.kraus.path # "loop"
    /\ FGe(call.ret.kraus.last.p, TOLERANCE)

\* C12: whenever the loop of sample_kraus_operators ends without committing a
\* branch and some branch had p >= TOLERANCE, the call succeeds by applying the
\* last branch with p >= TOLERANCE and leaves the state normalized.
C12_FallbackChoosesBranch ==
    KrausLoopExhausted =>
        /\ call.ret.err = NoError
        /\ call.ret.path = "fallback"
        /\ call.ret.branch = call.ret.kraus.last.index
        /\ IsHealthy(state)
        /\ IsNormalized(state.sv)

(***************************************************************************)
(* StateVector::try_from as a function of its arguments.                   *)
(***************************************************************************)
\* dimensions, qubit counts, trace changes and amplitude vectors handed to try_from
Dims == {0, 1, 2, 3, 4, Pow2(UsizeBits - 2), Pow2(UsizeBits - 1)}

QubitCounts == {0, 1, 2, UsizeBits - 2, UsizeBits - 1, UsizeBits}

TraceChanges == {One, Zero, NaN}

Lengths == {0, 1, 2, 4, 16}

try_from ==
    \E d \in Dims, n \in QubitCounts, tc \in TraceChanges, pat \in Patterns, len \in Lengths, overflow_checks \in BOOLEAN :
        /\ ~tf.called
        /\ tf' = TryFromCall(d, n, tc, Padded(pat, len), overflow_checks)
        /\ UNCHANGED <<state, dim, call, hist, ncalls, rounding, pass>>

NextTryFrom == try_from

SpecTryFrom == Init /\ [][NextTryFrom]_vars

\* C13: try_from returns Some exactly when dim = 2^n and the length of data is
\* dim * dim, and None otherwise; normalization of data and the value of
\* trace_change play no part, and the state returned carries the four arguments.
C13_TryFrom ==
    tf.called =>
        /\ ~tf.ret.panic
        /\ tf.ret.some <=> (tf.dim = Pow2(tf.number_of_qubits) /\ Len(tf.data) = tf.dim * tf.dim)
        /\ tf.ret.some =>
               tf.ret.sv = StateVector(tf.dim, tf.number_of_qubits, tf.trace_change, tf.data)

(***************************************************************************)
(* qsc_passes::conjugate_invert.  An HIR node (Expr, Block or Stmt) is a   *)
(* record of its kind, an id and its children in visiting order.  The id   *)
(* of a Var is the local it names (Res::Local), the id of a StmtLocal is   *)
(* the identifier its pattern binds; a Block stands for both the Block and *)
(* the Expr of kind ExprKind::Block that holds it.  Spans are identified   *)
(* with ids.                                                               *)
(***************************************************************************)
Node(kind, id, args) == [kind |-> kind, id |-> id, args |-> args]

\* ExprKind::Var(Res::Local(id))
Var(id) == Node("Var", id, <<>>)

Hole == Node("Hole", 0, <<>>)

Tuple(exprs) == Node("Tuple", 0, exprs)

\* a call of an operation that has an adjoint
OpCall == Node("Call", 0, <<>>)

\* a call of an operation that has no adjoint
Measure == Node("Measure", 0, <<>>)

\* `set lhs = rhs`
Assign(lhs, rhs) == Node("Assign", 0, <<lhs, rhs>>)

\* `set lhs op= rhs`
AssignOp(lhs, rhs) == Node("AssignOp", 0, <<lhs, rhs>>)

Return(expr) == Node("Return", 0, <<expr>>)

If(cond, body) == Node("If", 0, <<cond, body>>)

Block(stmts) == Node("Block", 0, stmts)

Conjugate(within, apply) == Node("Conjugate", 0, <<within, apply>>)

\* what mem::take leaves in expr.kind
DefaultKind == Node("Default", 0, <<>>)

\* StmtKind::Expr
StmtExpr(expr) == Node("StmtExpr", 0, <<expr>>)

\* StmtKind::Local(Immutable, Pat { kind: Bind(Ident { id, .. }) }, expr)
StmtLocal(id, expr) == Node("StmtLocal", id, <<expr>>)

RECURSIVE Flatten(_)
\* the concatenation of a sequence of sequences
Flatten(seqs) == IF seqs = <<>> THEN <<>> ELSE Head(seqs) \o Flatten(Tail(seqs))

RECURSIVE Nodes(_)
\* the nodes of a tree in visiting order
Nodes(node) == <<node>> \o Flatten([i \in 1..Len(node.args) |-> Nodes(node.args[i])])

\* the number of nodes of a kind in a tree
Count(node, kind) == Len(SelectSeq(Nodes(node), LAMBDA n : n.kind = kind))

\* errors of the pass
ApplyAssign(span) == [kind |-> "ApplyAssign", span |-> span]

ReturnForbidden(span) == [kind |-> "ReturnForbidden", span |-> span]

AdjGen == [kind |-> "AdjGen", span |-> 0]

RECURSIVE Usage(_)
\* Usage::visit_expr over a tree: the locals it uses
Usage(node) ==
    IF node.kind = "Var" THEN {node.id}
    ELSE UNION {Usage(node.args[i]) : i \in 1..Len(node.args)}

RECURSIVE CheckAssign(_, _)
\* AssignmentCheck::check_assign: Hole, Var or Tuple
CheckAssign(used, expr) ==
    IF expr.kind = "Hole" THEN <<>>
    ELSE IF expr.kind = "Var"
    THEN IF expr.id \in used THEN <<ApplyAssign(expr.id)>> ELSE <<>>
    ELSE Flatten([i \in 1..Len(expr.args) |-> CheckAssign(used, expr.args[i])])

RECURSIVE AssignmentCheck(_, _)
\* AssignmentCheck::visit_expr over a tree: ExprKind::Assign is the one kind matched,
\* every other kind is walked
AssignmentCheck(used, node) ==
    IF node.kind = "Assign"
    THEN AssignmentCheck(used, node.args[2]) \o CheckAssign(used, node.args[1])
    ELSE Flatten([i \in 1..Len(node.args) |-> AssignmentCheck(used, node.args[i])])

\* ReturnCheck::visit_block: the default walk hands the expression of each statement
\* of the block to ReturnCheck::visit_expr, which does not walk into it
ReturnCheck(block) ==
    Flatten([i \in 1..Len(block.args) |->
                IF block.args[i].args[1].kind = "Return"
                THEN <<ReturnForbidden(block.args[i].args[1].id)>>
                ELSE <<>>])

RECURSIVE Invert(_)
\* the adjoint of a tree: statements in reverse order, calls replaced by their
\* adjoints, and of a conjugate the apply-block alone
Invert(node) ==
    IF node.kind = "Call" THEN Node("AdjCall", node.id, <<>>)
    ELSE IF node.kind = "AdjCall" THEN Node("Call", node.id, <<>>)
    ELSE IF node.kind = "Conjugate" THEN Conjugate(node.args[1], Invert(node.args[2]))
    ELSE IF node.kind = "Block"
    THEN Block([i \in 1..Len(node.args) |-> Invert(node.args[Len(node.args) + 1 - i])])
    ELSE [node EXCEPT !.args = [i \in 1..Len(node.args) |-> Invert(node.args[i])]]

\* invert_block::adj_invert_block: Err when the block calls an operation without adjoint
AdjInvertBlock(block) == [ok |-> Count(block, "Measure") = 0, block |-> Invert(block)]

\* block_as_stmt
BlockAsStmt(block) == StmtExpr(block)

\* block_as_binding: bind_id, the statement id and the pattern id are the next three
\* ids of the assigner
BlockAsBinding(block, next) == [bind_id |-> next, stmt |-> StmtLocal(next, block), next |-> next + 3]

VisitResult(expr, next, errors) == [expr |-> expr, next |-> next, errors |-> errors]

RECURSIVE VisitExpr(_, _, _)
RECURSIVE WalkExpr(_, _, _, _)
\* variant: the block that replaces a conjugate is not walked
VisitExprNoWalk(expr, next, errors) ==
    IF expr.kind = "Conjugate"
    THEN LET within == expr.args[1]
             apply == expr.args[2]
             errs == errors \o AssignmentCheck(Usage(within), apply) \o ReturnCheck(apply)
             adj_within == AdjInvertBlock(within)
             bind == BlockAsBinding(apply, next)
             new_block == Block(<<BlockAsStmt(within), bind.stmt, BlockAsStmt(adj_within.block),
                                  StmtExpr(Var(bind.bind_id))>>)
         IN IF ~adj_within.ok THEN VisitResult(DefaultKind, next, errs \o <<AdjGen>>)
            ELSE VisitResult(new_block, bind.next, errs)
    ELSE WalkExpr(expr, 1, next, errors)

\* ConjugateElim::visit_expr, on any node: the result is the node after the visit,
\* the assigner's next id and the errors so far
VisitExpr(expr, next, errors) ==
    IF expr.kind = "Conjugate"
    THEN LET within == expr.args[1]
             apply == expr.args[2]
             errs == errors \o AssignmentCheck(Usage(within), apply) \o ReturnCheck(apply)
             adj_within == AdjInvertBlock(within)
             bind == BlockAsBinding(apply, next)
             new_block == Block(<<BlockAsStmt(within), bind.stmt, BlockAsStmt(adj_within.block),
                                  StmtExpr(Var(bind.bind_id))>>)
         IN IF ~adj_within.ok THEN VisitResult(DefaultKind, next, errs \o <<AdjGen>>)
            ELSE WalkExpr(new_block, 1, bind.next, errs)
    ELSE WalkExpr(expr, 1, next, errors)

\* mut_visit::walk_expr (walk_block, walk_stmt): the children from the i-th on
WalkExpr(expr, i, next, errors) ==
    IF i > Len(expr.args) THEN VisitResult(expr, next, errors)
    ELSE LET r == VisitExpr(expr.args[i], next, errors)
         IN WalkExpr([expr EXCEPT !.args[i] = r.expr], i + 1, r.next, r.errors)

\* invert_conjugate_exprs on a package whose one callable has the body `package`;
\* the assigner starts above the ids of the package
InvertConjugateExprs(package) ==
    LET r == VisitExpr(package, MaxLocals + 1, <<>>)
    IN [done |-> TRUE, input |-> package, output |-> r.expr, errors |-> r.errors,
        next |-> r.next]

(***************************************************************************)
(* Packages.                                                               *)
(***************************************************************************)
Locals == 1..MaxLocals

\* a block of one statement
Block1(expr) == Block(<<StmtExpr(expr)>>)

\* left-hand sides of `set`
Targets ==
    {Var(v) : v \in Locals} \cup {Hole} \cup {Tuple(<<Var(v), Hole>>) : v \in Locals}
        \cup {Tuple(<<Var(1), Tuple(<<Hole, Var(MaxLocals)>>)>>)}

Assignments ==
    {Assign(t, OpCall) : t \in Targets} \cup {AssignOp(Var(v), OpCall) : v \in Locals}

SimpleExprs == {OpCall, Return(OpCall)} \cup {Var(v) : v \in Locals} \cup Assignments

\* expressions of an apply-block: at the top of a statement, in an if-branch, in a
\* nested block
ApplyExprs ==
    SimpleExprs \cup {If(OpCall, Block1(e)) : e \in SimpleExprs}
        \cup {Block1(e) : e \in SimpleExprs}

WithinExprs == {OpCall, Measure} \cup {Var(v) : v \in Locals}

\* conjugates without a conjugate inside
InnerConjugates ==
    {Conjugate(Block1(w), Block1(a)) :
        w \in WithinExprs, a \in {OpCall, Assign(Var(1), OpCall), Return(OpCall)}}

Packages ==
    {Block1(Conjugate(Block1(w), Block1(a))) : w \in WithinExprs, a \in ApplyExprs}
        \cup {Block1(Conjugate(Block(<<StmtExpr(OpCall), StmtExpr(c)>>), Block1(a))) :
                 c \in InnerConjugates, a \in {OpCall, Assign(Var(1), OpCall)}}
        \cup {Block1(Conjugate(Block1(w), Block(<<StmtExpr(c), StmtExpr(OpCall)>>))) :
                 c \in InnerConjugates, w \in {OpCall, Var(1)}}
        \cup {Block(<<StmtExpr(OpCall), StmtExpr(If(OpCall, Block1(c)))>>) :
                 c \in InnerConjugates}
        \cup {Block1(a) : a \in ApplyExprs}

invert_conjugate_exprs ==
    \E package \in Packages :
        /\ ~pass.done
        /\ pass' = InvertConjugateExprs(package)
        /\ UNCHANGED <<state, dim, call, hist, ncalls, rounding, tf>>

NextConjugate == invert_conjugate_exprs

SpecConjugate == Init /\ [][NextConjugate]_vars

\* the package is one statement that is a conjugate
RootConjugate == pass.done /\ Len(pass.input.args) = 1 /\ pass.input.args[1].args[1].kind = "Conjugate"

\* C14: after invert_conjugate_exprs no conjugate expression remains in the
\* package, nested ones included, and a conjugate whose within-block was inverted
\* without error is replaced by a block of four statements: the within-block, the
\* binding of the apply-block to a fresh local, the inverted within-block, the
\* bound local (checked in full where the two blocks hold no conjugate).
C14_ConjugatesEliminated ==
    /\ pass.done => Count(pass.output, "Conjugate") = 0
    /\ (RootConjugate /\ AdjInvertBlock(pass.input.args[1].args[1].args[1]).ok) =>
           LET within == pass.input.args[1].args[1].args[1]
               apply == pass.input.args[1].args[1].args[2]
               new_block == pass.output.args[1].args[1]
           IN /\ new_block.kind = "Block"
              /\ Len(new_block.args) = 4
              /\ new_block.args[1].kind = "StmtExpr"
              /\ new_block.args[1].args[1].kind = "Block"
              /\ new_block.args[2].kind = "StmtLocal"
              /\ new_block.args[2].args[1].kind = "Block"
              /\ new_block.args[2].id \notin Usage(pass.input)
              /\ new_block.args[3].kind = "StmtExpr"
              /\ new_block.args[3].args[1].kind = "Block"
              /\ new_block.args[4] = StmtExpr(Var(new_block.args[2].id))
              /\ Count(pass.input, "Conjugate") = 1 =>
                     /\ new_block.args[1].args[1] = within
                     /\ new_block.args[2].args[1] = apply
                     /\ new_block.args[3].args[1] = Invert(within)

\* a conjugate whose within-block holds a conjugate was replaced, the inner one too
C14_Witness ==
    /\ RootConjugate
    /\ Count(pass.input.args[1].args[1].args[1], "Conjugate") = 1
    /\ pass.errors = <<>>
    /\ Count(pass.output, "Conjugate") = 0
    /\ pass.output.args[1].args[1].kind = "Block"
    /\ pass.output.args[1].args[1].args[1].args[1].args[2].args[1].kind = "Block"

(***************************************************************************)
(* The loop of sample_kraus_operators.                                     *)
(***************************************************************************)
\* what the last call handed to sample_kraus_operators: the Kraus list, the
\* renormalization factor and the sample
KrausArgs ==
    IF call.name = "apply_operation"
    THEN [ops |-> KrausOperators(Operations[call.op]), factor |-> call.ret.consumed,
          u |-> call.u]
    ELSE IF call.name = "apply_instrument"
    THEN [ops |-> NonSelectiveKrausOperators(Instruments[call.op]),
          factor |-> call.ret.consumed, u |-> call.u]
    ELSE [ops |-> KrausOperators(Instruments[call.op][call.ret.outer.last_o + 1]),
          factor |-> call.ret.outer.last_s, u |-> call.ret.outer.rescaled]

\* p_i of branch i (0-based) on the state before the call
BranchProbability(i) ==
    FDiv(NormSquared(ApplyKernel(call.pre.sv.data, KrausArgs.ops[i + 1], TRUE).data),
         KrausArgs.factor)

RECURSIVE BranchSum(_)
\* p_0 + ... + p_i as the loop accumulates it
BranchSum(i) == IF i < 0 THEN Zero ELSE Accumulate(BranchSum(i - 1), BranchProbability(i))

\* the branches with p >= TOLERANCE among the first n
NonZeroBranches(n) == {i \in 0..(n - 1) : FGe(BranchProbability(i), TOLERANCE)}

\* the branches with p >= TOLERANCE whose cumulative sum exceeds the sample
CommitBranches ==
    {i \in NonZeroBranches(Len(KrausArgs.ops)) : FGt(BranchSum(i), KrausArgs.u)}

\* C15: when sample_kraus_operators commits inside its loop, the branch applied is
\* the lowest i with p_i >= TOLERANCE and p_0 + ... + p_i > u, no branch after it
\* was evaluated and the state is that branch applied and renormalized; the
\* last-non-zero record of any call is the last evaluated branch with
\* p >= TOLERANCE (branches below TOLERANCE never enter it).
C15_LowestCrossingBranch ==
    call.ret.kraus.ran =>
        /\ call.ret.kraus.path = "loop" =>
               /\ CommitBranches # {}
               /\ call.ret.kraus.branch = Least(CommitBranches)
               /\ call.ret.kraus.seen = call.ret.kraus.branch + 1
               /\ call.ret.err = NoError =>
                      state.sv.data =
                          Renormalize([call.pre.sv EXCEPT !.data =
                              ApplyKernel(call.pre.sv.data,
                                          KrausArgs.ops[call.ret.kraus.branch + 1],
                                          TRUE).data]).sv.data
        /\ call.ret.kraus.path # "loop" => CommitBranches = {}
        /\ call.ret.kraus.last =
               IF NonZeroBranches(call.ret.kraus.seen) = {} THEN LastNonZero(Zero, 0)
               ELSE LastNonZero(BranchProbability(Greatest(NonZeroBranches(call.ret.kraus.seen))),
                                Greatest(NonZeroBranches(call.ret.kraus.seen)))

\* the bit-flip channel with u = 0.7 on |0>: branch 0 is passed over, branch 1 (X)
\* is committed and the state is |1>
C15_Witness ==
    /\ call.name = "apply_operation"
    /\ call.op = 5
    /\ call.u = <<7, 10>>
    /\ IsHealthy(call.pre)
    /\ SubSeq(call.pre.sv.data, 1, 2) = <<One, Zero>>
    /\ call.ret.kraus.path = "loop"
    /\ call.ret.kraus.branch = 1
    /\ call.ret.kraus.seen = 2
    /\ call.ret.err = NoError
    /\ SubSeq(state.sv.data, 1, 2) = <<Zero, One>>

(***************************************************************************)
(* The failure test after the outer loop.                                  *)
(***************************************************************************)
RECURSIVE OutcomeSum(_)
\* p_0 + ... + p_o of the instrument of the last call as the outer loop accumulates it
OutcomeSum(o) ==
    IF o < 0 THEN Zero
    ELSE Accumulate(OutcomeSum(o - 1),
                    OutcomeProbability(call.pre.sv, Instruments[call.op], o))

\* the number of outcomes the outer loop visited: up to the first whose sum exceeds u
Visited ==
    LET n == NumOperations(Instruments[call.op])
        crossing == {o \in 0..(n - 1) : FGt(OutcomeSum(o), call.u)}
    IN IF crossing = {} THEN n ELSE Least(crossing) + 1

\* the visited outcomes with p >= TOLERANCE
VisitedNonZero == {o \in NonZeroOutcomes(call.pre.sv, Instruments[call.op]) : o < Visited}

\* the effect probability s recorded at the end of the outer loop
RecordedNormSquared ==
    IF VisitedNonZero = {} THEN Zero
    ELSE OutcomeNormSquared(call.pre.sv, Instruments[call.op], Greatest(VisitedNonZero))

\* the last call sampled an instrument on a Healthy simulator and ran its outer loop
\* to the end
SampledOutcome ==
    /\ call.name = "sample_instrument_with_distribution"
    /\ IsHealthy(call.pre)
    /\ call.qubits_ok

\* the call failed with FailedToSampleInstrumentOutcome and poisoned the simulator
\* with it before trace_change was multiplied or a Kraus operator applied
FailedOutcome ==
    /\ call.ret.err = FailedToSampleInstrumentOutcome
    /\ state = Poisoned(FailedToSampleInstrumentOutcome)
    /\ ~call.ret.kraus.ran
    /\ IsNaN(call.ret.consumed)

\* C16 as stated: the call fails with FailedToSampleInstrumentOutcome exactly when
\* summed + TOLERANCE <= u or no visited outcome had p >= TOLERANCE; it then
\* poisons the simulator without multiplying trace_change or applying a Kraus
\* operator; an outcome returned on success has p >= TOLERANCE.
C16_OutcomeFailure ==
    SampledOutcome =>
        /\ call.ret.err = FailedToSampleInstrumentOutcome <=>
               \/ FLe(FAdd(OutcomeSum(Visited - 1), TOLERANCE), call.u)
               \/ VisitedNonZero = {}
        /\ call.ret.err = FailedToSampleInstrumentOutcome => FailedOutcome
        /\ call.ret.err = NoError =>
               FGe(OutcomeProbability(call.pre.sv, Instruments[call.op], call.ret.outcome),
                   TOLERANCE)

\* C16: the call fails with FailedToSampleInstrumentOutcome exactly when
\* summed + TOLERANCE <= u or the effect probability s recorded for the last visited
\* outcome with p >= TOLERANCE (0 when there is none) is below TOLERANCE; it then
\* poisons the simulator without multiplying trace_change or applying a Kraus
\* operator; an outcome returned on success has p >= TOLERANCE.
C16_OutcomeFailureEffect ==
    SampledOutcome =>
        /\ call.ret.err = FailedToSampleInstrumentOutcome <=>
               \/ FLe(FAdd(OutcomeSum(Visited - 1), TOLERANCE), call.u)
               \/ FLt(RecordedNormSquared, TOLERANCE)
        /\ call.ret.err = FailedToSampleInstrumentOutcome => FailedOutcome
        /\ call.ret.err = NoError =>
               FGe(OutcomeProbability(call.pre.sv, Instruments[call.op], call.ret.outcome),
                   TOLERANCE)

\* |1> sampled with the three-outcome instrument at u = 0: the loop stops at outcome
\* 0, whose p is below TOLERANCE, nothing was recorded and the call failed
C16_Witness ==
    /\ SampledOutcome
    /\ call.op = 2
    /\ call.u = Zero
    /\ SubSeq(call.pre.sv.data, 1, 2) = <<Zero, One>>
    /\ Visited = 1
    /\ VisitedNonZero = {}
    /\ FailedOutcome

(***************************************************************************)
(* The checks of the apply-block.                                          *)
(***************************************************************************)
\* the package holds one conjugate, at its root
OneConjugate == RootConjugate /\ Count(pass.input, "Conjugate") = 1

RECURSIVE AssignTargets(_)
\* the locals named on the left-hand side of an assignment
AssignTargets(lhs) ==
    IF lhs.kind = "Var" THEN <<lhs.id>>
    ELSE Flatten([i \in 1..Len(lhs.args) |-> AssignTargets(lhs.args[i])])

IsAssignment(node) == node.kind \in {"Assign", "AssignOp"}

\* the locals assigned in a tree, by any form of assignment and at any depth
Assigned(node) ==
    Flatten([i \in 1..Len(SelectSeq(Nodes(node), IsAssignment)) |->
                AssignTargets(SelectSeq(Nodes(node), IsAssignment)[i].args[1])])

IsApplyAssign(error) == error.kind = "ApplyAssign"

IsReturnForbidden(error) == error.kind = "ReturnForbidden"

\* C17: for a conjugate, the ApplyAssign errors are one per assignment target in
\* the apply-block, at any depth and in any form of assignment, that is a local
\* used in the within-block, and none for a local the within-block does not use.
C17_ApplyAssign ==
    OneConjugate =>
        LET within == pass.input.args[1].args[1].args[1]
            apply == pass.input.args[1].args[1].args[2]
            InWithin(v) == v \in Usage(within)
        IN [i \in 1..Len(SelectSeq(pass.errors, IsApplyAssign)) |->
               SelectSeq(pass.errors, IsApplyAssign)[i].span]
               = SelectSeq(Assigned(apply), InWithin)

\* C18: for a conjugate, there is a ReturnForbidden error for every return
\* expression in the apply-block, at any nesting depth.
C18_ReturnForbidden ==
    OneConjugate =>
        LET apply == pass.input.args[1].args[1].args[2]
        IN Len(SelectSeq(pass.errors, IsReturnForbidden)) = Count(apply, "Return")

(***************************************************************************)
(* Errors that leave the simulator Healthy.                                *)
(***************************************************************************)
\* C19: whenever a call on a Healthy simulator returns an error and the simulator
\* is Healthy after it, the state it holds (amplitudes and trace_change) is the
\* state it held before the call.
C19_ErrorKeepsState ==
    (IsHealthy(call.pre) /\ call.ret.err # NoError /\ IsHealthy(state)) => state = call.pre

\* an attenuated state: apply_operation multiplied trace_change, then
\* sample_instrument_with_distribution met a kernel error and changed nothing
C19_Witness ==
    /\ call.name = "sample_instrument_with_distribution"
    /\ ~call.qubits_ok
    /\ call.ret.err = KernelError
    /\ IsHealthy(call.pre)
    /\ call.pre.sv.trace_change = Half
    /\ state = call.pre

(***************************************************************************)
(* The rescaled sample.                                                    *)
(***************************************************************************)
\* C20: whenever sample_instrument_with_distribution hands a rescaled sample u' to
\* sample_kraus_operators, 0 <= u' < 1, the inner sampling commits a branch inside
\* its loop and the call does not return FailedToSampleKrausOperators.
C20_RescaledSample ==
    (SampledOutcome /\ call.ret.kraus.ran) =>
        /\ FLe(Zero, call.ret.outer.rescaled)
        /\ FLt(call.ret.outer.rescaled, One)
        /\ call.ret.kraus.path = "loop"
        /\ call.ret.err # FailedToSampleKrausOperators

(***************************************************************************)
(* The length of the amplitude vector.                                     *)
(***************************************************************************)
\* C21: the amplitude vector of the state held by a Healthy simulator always has
\* the length 2^n that new(n) gave it, after any sequence of public calls,
\* set_state included: the states try_from accepts and set_state installs have
\* the length of the states the simulator produces.
C21_DataLength ==
    IsHealthy(state) => Len(state.sv.data) = dim

====
